------------------------------ MODULE Spec2Model ------------------------------
(***************************************************************************)
(* OMEGA-PRIME (src/Omega_prime.py): keyword scorer, SQLite record store   *)
(* with INSERT OR IGNORE de-duplication, notifier and the sequential scan  *)
(* cycle run_once.                                                         *)
(*                                                                         *)
(* Text is a sequence of one-character strings.  Scores are fixed-point    *)
(* numbers in thousandths (10.0 is 10 * MILLI), so that round(score, 2)    *)
(* is a real operation on them.                                            *)
(***************************************************************************)
EXTENDS Integers, Sequences, FiniteSets, TLC

VARIABLES
  db,          \* table opportunities: id -> row
  csv,         \* rows last written to CSV_FILE by export_to_csv
  now,         \* wall clock, in seconds
  pc,          \* position of the process inside run_once
  cycle,       \* number of run_once invocations started
  feedIdx,     \* index into FEEDS of the for loop of run_once
  remaining,   \* entries of d.entries[:15] not yet iterated
  score,       \* local score of process_feed, or NoScore outside the loop
  opp,         \* the dict handed to save_to_db / notify, or NoOpp
  dispatched,  \* the dicts notify() has been called with
  scanned,     \* feeds process_feed was called on in this cycle, in order
  lastError,   \* the last error process_feed logged in this cycle
  exitStatus,  \* how the last run_once ended
  title,       \* scorer input: title
  summary,     \* scorer input: summary
  result       \* scorer output, or NoResult

machineVars == <<db, csv, now, pc, cycle, feedIdx, remaining, score, opp, dispatched,
                 scanned, lastError, exitStatus>>
scoreVars == <<title, summary, result>>
vars == <<db, csv, now, pc, cycle, feedIdx, remaining, score, opp, dispatched,
          scanned, lastError, exitStatus, title, summary, result>>

-----------------------------------------------------------------------------
(* Bounds of the model *)

\* fragments concatenated into a scorer input title
MaxWords == 3
\* entries a feed may return in one fetch
MaxFeedLen == 2
\* feeds of FEEDS scanned by a cycle (the first NumFeeds of the list)
NumFeeds == 2
\* invocations of run_once
MaxCycles == 1

-----------------------------------------------------------------------------
(* Configuration *)

HIGH_VALUE_KEYWORDS ==
  << <<"a","i","r","d","r","o","p">>,
     <<"t","e","s","t","n","e","t">>,
     <<"i","n","c","e","n","t","i","v","e">>,
     <<"r","e","w","a","r","d">>,
     <<"p","o","i","n","t","s">>,
     <<"f","a","u","c","e","t">>,
     <<"r","e","t","r","o","a","c","t","i","v","e">>,
     <<"g","r","a","n","t">>,
     <<"b","o","u","n","t","y">>,
     <<"q","u","e","s","t">>,
     <<"g","a","l","x","e">>,
     <<"l","a","y","e","r","3">>,
     <<"z","e","a","l","y">>,
     <<"c","r","e","w","3">>,
     <<"t","a","s","k","o","n">>,
     <<"g","u","i","l","d",".","x","y","z">>,
     <<"p","r","e","-","t","g","e">>,
     <<"m","a","i","n","n","e","t"," ","s","o","o","n">> >>

URGENT_KEYWORDS ==
  << <<"2","4","h">>,
     <<"4","8","h">>,
     <<"e","n","d","s"," ","s","o","o","n">>,
     <<"l","a","s","t"," ","c","h","a","n","c","e">>,
     <<"d","e","a","d","l","i","n","e">> >>

hot_projects ==
  << <<"z","k","s","y","n","c">>,
     <<"s","c","r","o","l","l">>,
     <<"l","i","n","e","a">>,
     <<"b","l","a","s","t">>,
     <<"t","a","i","k","o">>,
     <<"e","i","g","e","n","l","a","y","e","r">>,
     <<"z","i","r","c","u","i","t">>,
     <<"b","e","r","a","c","h","a","i","n">>,
     <<"m","o","n","a","d">> >>

\* fixed-point resolution of the float score: 1.0 is MILLI
MILLI == 1000
HIGH_VALUE_WEIGHT == 10 * MILLI
URGENT_WEIGHT == 25 * MILLI
HOT_PROJECT_WEIGHT == 20 * MILLI
\* "if score < 15" in process_feed
NOISE_THRESHOLD == 15 * MILLI
\* entry["title"][:200]
TITLE_LIMIT == 200
\* d.entries[:15]
ENTRY_LIMIT == 15
\* .{0,30} in the deadline pattern
DEADLINE_GAP == 30

-----------------------------------------------------------------------------
(* Text helpers: str.lower, the "in" substring test *)

UPPER ==
  <<"A","B","C","D","E","F","G","H","I","J","K","L","M","N","O","P","Q","R","S","T","U","V","W","X","Y","Z">>
LOWER ==
  <<"a","b","c","d","e","f","g","h","i","j","k","l","m","n","o","p","q","r","s","t","u","v","w","x","y","z">>
DIGITS ==
  <<"0","1","2","3","4","5","6","7","8","9">>

Min(a, b) == IF a < b THEN a ELSE b

Range(s) == {s[i] : i \in DOMAIN s}

LowerChar(c) ==
  IF \E i \in DOMAIN UPPER : UPPER[i] = c
  THEN LOWER[CHOOSE i \in DOMAIN UPPER : UPPER[i] = c]
  ELSE c

\* a faulty variant of Lower: the text is not lower-cased
LowerNone(text) == text

Lower(text) == [i \in 1..Len(text) |-> LowerChar(text[i])]

\* w occurs in text starting at position p
MatchAt(text, p, w) ==
  /\ p >= 1
  /\ p + Len(w) - 1 <= Len(text)
  /\ \A j \in 1..Len(w) : text[p + j - 1] = w[j]

\* Python: kw in text
Contains(kw, text) == \E p \in 1..(Len(text) - Len(kw) + 1) : MatchAt(text, p, kw)

-----------------------------------------------------------------------------
(* Scoring engine: calculate_score *)

\* a faulty variant of KeywordLoop: the weight is added once per occurrence of a keyword
RECURSIVE KeywordLoopPerOccurrence(_, _, _, _, _)
KeywordLoopPerOccurrence(kws, text, weight, i, acc) ==
  IF i > Len(kws) THEN acc
  ELSE KeywordLoopPerOccurrence(kws, text, weight, i + 1,
         acc + weight * Cardinality({p \in 1..Len(text) : MatchAt(text, p, kws[i])}))

\* one "for kw in ...: if kw in text: score += weight" loop, from keyword i on
RECURSIVE KeywordLoop(_, _, _, _, _)
KeywordLoop(kws, text, weight, i, acc) ==
  IF i > Len(kws) THEN acc
  ELSE KeywordLoop(kws, text, weight, i + 1,
                   IF Contains(kws[i], text) THEN acc + weight ELSE acc)

\* Python round(score, 2) on a value in thousandths: to the nearest hundredth,
\* a tie to the even hundredth
Round2(x) ==
  LET r == x % 10
      down == x - r
  IN IF r < 5 THEN down
     ELSE IF r > 5 THEN down + 10
     ELSE IF (down \div 10) % 2 = 0 THEN down ELSE down + 10

TRIGGERS ==
  << <<"e","n","d","s">>,
     <<"e","n","d">>,
     <<"d","e","a","d","l","i","n","e">>,
     <<"c","l","o","s","e","s">>,
     <<"c","l","o","s","e">> >>

MONTHS ==
  << <<"j","a","n">>,
     <<"f","e","b">>,
     <<"m","a","r">>,
     <<"a","p","r">>,
     <<"m","a","y">>,
     <<"j","u","n">>,
     <<"j","u","l">>,
     <<"a","u","g">>,
     <<"s","e","p">>,
     <<"o","c","t">>,
     <<"n","o","v">>,
     <<"d","e","c">> >>

IsDigit(text, p) == p >= 1 /\ p <= Len(text) /\ text[p] \in Range(DIGITS)

\* \d{1,2}[\/\-]\d{1,2} at position p: the last position matched, or 0.
\* Both \d{1,2} are greedy; the first gives a digit back when no separator
\* follows two digits.
NumericDateEnd(text, p) ==
  LET Sep(q) == q <= Len(text) /\ text[q] \in {"/", "-"}
      After(q) == IF IsDigit(text, q + 1) THEN q + 1 ELSE q
  IN IF IsDigit(text, p) /\ IsDigit(text, p + 1) /\ Sep(p + 2) /\ IsDigit(text, p + 3)
     THEN After(p + 3)
     ELSE IF IsDigit(text, p) /\ Sep(p + 1) /\ IsDigit(text, p + 2)
     THEN After(p + 2)
     ELSE 0

\* a faulty variant of DateEnd: the month abbreviations are not alternatives
DateEndNumericOnly(text, p) == NumericDateEnd(text, p)

\* (jan|feb|...|dec|\d{1,2}[\/\-]\d{1,2}) at position p: the last position
\* matched by the first alternative that matches, or 0
DateEnd(text, p) ==
  IF \E m \in DOMAIN MONTHS : MatchAt(text, p, MONTHS[m])
  THEN LET m == CHOOSE k \in DOMAIN MONTHS :
                  /\ MatchAt(text, p, MONTHS[k])
                  /\ \A j \in 1..(k - 1) : ~MatchAt(text, p, MONTHS[j])
       IN p + Len(MONTHS[m]) - 1
  ELSE NumericDateEnd(text, p)

\* .{0,30} from position p over g characters: "." matches anything but "\n"
DotRun(text, p, g) ==
  /\ p + g - 1 <= Len(text)
  /\ \A q \in p..(p + g - 1) : text[q] # "\n"

\* The attempts of the backtracking matcher that succeed: start position i,
\* trigger alternative t (TRIGGERS lists them in the order tried: "ends"
\* before "end" because s? is greedy), gap g taken by .{0,30}.
DeadlineAttempts(text) ==
  LET Starts == {s \in (1..Len(text)) \X (DOMAIN TRIGGERS) :
                   MatchAt(text, s[1], TRIGGERS[s[2]])}
      Gaps(s) == {g \in 0..DEADLINE_GAP :
                    /\ DotRun(text, s[1] + Len(TRIGGERS[s[2]]), g)
                    /\ DateEnd(text, s[1] + Len(TRIGGERS[s[2]]) + g) # 0}
  IN UNION {{<<s[1], s[2], g>> : g \in Gaps(s)} : s \in Starts}

\* re.search(...).group(0), or "" without a match: the leftmost start, then the
\* first trigger alternative, then the longest gap (greedy .{0,30})
DeadlineHint(text) ==
  LET A == DeadlineAttempts(text)
  IN IF A = {} THEN <<>>
     ELSE LET a == CHOOSE x \in A : \A y \in A :
                     \/ x[1] < y[1]
                     \/ x[1] = y[1] /\ x[2] < y[2]
                     \/ x[1] = y[1] /\ x[2] = y[2] /\ x[3] >= y[3]
          IN SubSeq(text, a[1], DateEnd(text, a[1] + Len(TRIGGERS[a[2]]) + a[3]))

calculate_score(t, s) ==
  LET text == Lower(t \o <<" ">> \o s)
      s1 == KeywordLoop(HIGH_VALUE_KEYWORDS, text, HIGH_VALUE_WEIGHT, 1, 0)
      s2 == KeywordLoop(URGENT_KEYWORDS, text, URGENT_WEIGHT, 1, s1)
      s3 == KeywordLoop(hot_projects, text, HOT_PROJECT_WEIGHT, 1, s2)
  IN [score |-> Round2(s3), deadline_hint |-> DeadlineHint(text)]

-----------------------------------------------------------------------------
(* Scorer inputs *)

Fragments ==
  << <<"A","i","r","d","r","o","p"," ">>,
     <<"q","u","e","s","t">>,
     <<"2","4","h"," ">>,
     <<"e","n","d","s"," ">>,
     <<"s","o","o","n"," ">>,
     <<"z","k","S","y","n","c"," ">>,
     <<"D","e","c"," ","1","5">>,
     <<"3","/","1","4">>,
     <<"\n">> >>

ScenarioTitle ==
  <<"N","e","w"," ","z","k","S","y","n","c"," ","A","i","r","d","r","o","p"," ","U+2014"," ","e","n","d","s"," ","2","4","h",","," ","c","l","a","i","m"," ","n","o","w">>

CampaignTitle ==
  <<"C","a","m","p","a","i","g","n"," ","e","n","d","s"," ","D","e","c"," ","1","5",","," ","h","u","r","r","y">>

RECURSIVE Concat(_)
Concat(ws) == IF ws = <<>> THEN <<>> ELSE Head(ws) \o Concat(Tail(ws))

\* every concatenation of at most MaxWords fragments, and the two fixed titles
Titles ==
  {Concat([i \in DOMAIN ix |-> Fragments[ix[i]]]) :
     ix \in UNION {[1..n -> DOMAIN Fragments] : n \in 0..MaxWords}}
     \cup {ScenarioTitle, CampaignTitle}

Summaries == {<<>>, <<"C","l","o","s","e","s"," ","1","-","2">>}

NoResult == [score |-> -1, deadline_hint |-> <<>>]

-----------------------------------------------------------------------------
(* Feed sources *)

TWITTER_USERS ==
  <<"airdropinspect", "dropstoken", "gem_insider", "defi_airdrops",
    "ItsAlwaysZonny", "starrynift", "0xNonceSense">>

\* the literal list, then one appended feed per Twitter user
FEEDS ==
  <<"AirdropAlert RSS", "Binance Academy", "CoinList Announcements",
    "DeFi Airdrops", "AirdropKing.io", "CryptoRank Airdrops",
    "Galxe Quest Feed", "Layer3 Quests">>
  \o [i \in DOMAIN TWITTER_USERS |-> "Twitter @" \o TWITTER_USERS[i]]

\* the feeds a cycle of the model scans
ScannedFeeds == SubSeq(FEEDS, 1, Min(NumFeeds, Len(FEEDS)))

\* a title longer than TITLE_LIMIT characters: "testnet 24h " and padding
LongTitle ==
  <<"T","e","s","t","n","e","t"," ","2","4","h"," ">> \o [i \in 1..(TITLE_LIMIT - 5) |-> "x"]

\* The entries a feed may hold.  An entry is a dict: a field it lacks is not
\* in its DOMAIN.  Two entries share link "L1" and differ in everything else.
FeedEntries ==
  { [title |-> <<"z","k","S","y","n","c"," ","a","i","r","d","r","o","p">>,
     link |-> "L1", published |-> "Mon, 06 Jan 2025"],
    [title |-> <<"Q","u","e","s","t"," ","e","n","d","s"," ","s","o","o","n">>,
     link |-> "L1", summary |-> <<"D","e","a","d","l","i","n","e"," ","3","/","1","4">>],
    [title |-> <<"a","i","r","d","r","o","p"," ","n","e","w","s">>,
     link |-> "L2", published |-> "Tue, 07 Jan 2025"],
    [title |-> <<"S","c","r","o","l","l"," ","b","o","u","n","t","y">>,
     published |-> "Tue, 07 Jan 2025"],
    [title |-> LongTitle,
     link |-> "L2", published |-> "Wed, 08 Jan 2025"] }

\* entry.get(key, default)
Get(entry, key, default) == IF key \in DOMAIN entry THEN entry[key] ELSE default

\* calculate_score(title, summary) for each entry that has a title
EntryScore == [e \in FeedEntries |-> calculate_score(e.title, Get(e, "summary", <<>>))]

-----------------------------------------------------------------------------
(* Record store *)

\* hashlib.sha256(link.encode()).hexdigest(): a digest, distinct for distinct links
Sha256(link) == <<"sha256", link>>

\* str(datetime.now())
NowStr(t) == <<"datetime", t>>

\* s[:n]
Take(s, n) == SubSeq(s, 1, Min(Len(s), n))

EmptyTable == [id \in {} |-> id]

\* a faulty variant of InsertOrIgnore: INSERT OR REPLACE
InsertOrReplace(table, row) ==
  [id \in DOMAIN table \cup {row.id} |-> IF id = row.id THEN row ELSE table[id]]

\* INSERT OR IGNORE: a row whose primary key is taken is dropped
InsertOrIgnore(table, row) ==
  IF row.id \in DOMAIN table THEN table
  ELSE [id \in DOMAIN table \cup {row.id} |-> IF id = row.id THEN row ELSE table[id]]

\* the row save_to_db inserts: notified and added_at take the column defaults
NewRow(entry, t) ==
  [id |-> Sha256(entry.link),
   title |-> Take(entry.title, TITLE_LIMIT),
   link |-> entry.link,
   source |-> entry.source,
   published |-> entry.published,
   score |-> entry.score,
   deadline_hint |-> entry.deadline_hint,
   notified |-> 0,
   added_at |-> t]

\* the table after INSERT OR IGNORE and commit
SaveInsert(table, entry, t) == InsertOrIgnore(table, NewRow(entry, t))

\* SELECT notified ... fetchone()[0] == 0, the value save_to_db returns
SaveReturn(table, entry) == table[Sha256(entry.link)].notified = 0

\* ORDER BY score DESC, added_at DESC: a may come before b
OrderedBefore(a, b) ==
  \/ a.score > b.score
  \/ a.score = b.score /\ a.added_at >= b.added_at

\* the orders in which SELECT * ... ORDER BY may return the ids of the table
\* (rows are never updated, so an id stands for its row)
ExportOrders(table) ==
  {s \in [1..Cardinality(DOMAIN table) -> DOMAIN table] :
     /\ \A i, j \in DOMAIN s : i # j => s[i] # s[j]
     /\ \A i, j \in DOMAIN s : i < j => OrderedBefore(table[s[i]], table[s[j]])}

-----------------------------------------------------------------------------
(* Exceptions *)

\* what the operations inside the try block of process_feed raise, with the
\* base class of each
RAISED ==
  [parse |-> "URLError", attribute |-> "AttributeError", store |-> "sqlite3.Error"]

BaseClass ==
  [x \in {"URLError", "AttributeError", "sqlite3.Error"} |-> "Exception"]

\* a faulty variant of Caught: except AttributeError
CaughtAttributeErrorOnly(kind) == kind = "AttributeError"

\* except Exception as e
Caught(kind) == BaseClass[kind] = "Exception"

\* a faulty variant of IsNoise: if score < 10
IsNoiseBelowTen(s) == s < 10 * MILLI

\* if score < 15: continue
IsNoise(s) == s < NOISE_THRESHOLD

-----------------------------------------------------------------------------
(* State *)

NoOpp == [link |-> "", score |-> 0]
NoError == [kind |-> "", abandoned |-> 0]
NoScore == -1

Init ==
  /\ db = EmptyTable
  /\ csv = <<>>
  /\ now = 0
  /\ pc = "idle"
  /\ cycle = 0
  /\ feedIdx = 0
  /\ remaining = 0
  /\ score = NoScore
  /\ opp = NoOpp
  /\ dispatched = {}
  /\ scanned = <<>>
  /\ lastError = NoError
  /\ exitStatus = "none"
  /\ title = <<>>
  /\ summary = <<>>
  /\ result = NoResult

\* where the for loop over d.entries[:15] goes once an entry is done
AfterEntry(left) == IF left = 0 THEN "sleep" ELSE "entry"

\* the local score once an entry is done: gone when process_feed returns
ScoreAfter(left, s) == IF left = 0 THEN NoScore ELSE s

\* An exception of class kind raised inside the try block of process_feed with
\* left entries of the slice not yet iterated: the except clause logs it and
\* process_feed returns; a class the clause does not name leaves run_once.
Raise(kind, left) ==
  /\ remaining' = 0
  /\ score' = NoScore
  /\ opp' = NoOpp
  /\ IF Caught(kind)
     THEN /\ pc' = "sleep"
          /\ lastError' = [kind |-> kind, abandoned |-> left]
          /\ exitStatus' = exitStatus
     ELSE /\ pc' = "idle"
          /\ lastError' = lastError
          /\ exitStatus' = "process_feed"

-----------------------------------------------------------------------------
(* Actions of the scan cycle *)

\* run_once up to the for loop: init_db creates the table if it is missing
\* (the file persists between runs); an error of init_db is not caught
RunOnce ==
  /\ pc = "idle"
  /\ cycle < MaxCycles
  /\ cycle' = cycle + 1
  /\ scanned' = <<>>
  /\ lastError' = NoError
  /\ \/ /\ pc' = IF Len(ScannedFeeds) = 0 THEN "export" ELSE "process_feed"
        /\ feedIdx' = 1
        /\ exitStatus' = "running"
     \/ /\ pc' = "idle"
        /\ feedIdx' = 0
        /\ exitStatus' = "init_db"
  /\ UNCHANGED <<db, csv, now, remaining, score, opp, dispatched>>
  /\ UNCHANGED scoreVars

\* process_feed, feedparser.parse and the slice d.entries[:15]
FetchFeed ==
  /\ pc = "process_feed"
  /\ scanned' = Append(scanned, FEEDS[feedIdx])
  /\ \/ \E n \in 0..MaxFeedLen :
          /\ remaining' = Min(n, ENTRY_LIMIT)
          /\ pc' = AfterEntry(remaining')
          /\ score' = NoScore
          /\ UNCHANGED <<opp, lastError, exitStatus>>
     \/ Raise(RAISED.parse, 0)
  /\ UNCHANGED <<db, csv, now, cycle, feedIdx, dispatched>>
  /\ UNCHANGED scoreVars

\* the dict process_feed builds for entry e
Opportunity(e) ==
  [title |-> e.title,
   link |-> e.link,
   source |-> FEEDS[feedIdx],
   published |-> Get(e, "published", NowStr(now)),
   score |-> EntryScore[e].score,
   deadline_hint |-> EntryScore[e].deadline_hint]

\* a faulty variant of SaveToDb: notify(opp) is reached although save_to_db raised
SaveToDbNotifyAnyway(o, left) ==
  \/ /\ db' = SaveInsert(db, o, now)
     /\ remaining' = left
     /\ pc' = "notify" /\ opp' = o /\ score' = o.score
     /\ UNCHANGED <<lastError, exitStatus>>
  \/ /\ db' = db
     /\ remaining' = left
     /\ pc' = "notify" /\ opp' = o /\ score' = o.score
     /\ lastError' = [kind |-> RAISED.store, abandoned |-> 0]
     /\ UNCHANGED exitStatus

\* save_to_db(o) called with left entries of the slice still to come, and the
\* "if save_to_db(opp): notify(opp)" that follows it
SaveToDb(o, left) ==
  LET saved == SaveInsert(db, o, now)
  IN \/ \* save_to_db returns
        /\ db' = saved
        /\ remaining' = left
        /\ IF SaveReturn(saved, o)
           THEN pc' = "notify" /\ opp' = o /\ score' = o.score
           ELSE pc' = AfterEntry(left) /\ opp' = opp /\ score' = ScoreAfter(left, o.score)
        /\ UNCHANGED <<lastError, exitStatus>>
     \/ \* connect, execute or commit raises: nothing is committed
        /\ db' = db
        /\ Raise(RAISED.store, left)
     \/ \* the SELECT after the commit raises
        /\ db' = saved
        /\ Raise(RAISED.store, left)

\* one iteration of the for loop over d.entries[:15], up to and including
\* save_to_db, for the next entry e of the feed
ProcessEntry(e) ==
  /\ pc = "entry"
  /\ LET left == remaining - 1
     IN IF ~({"title", "link"} \subseteq DOMAIN e)
        THEN \* entry.title / entry.link raises AttributeError
             /\ Raise(RAISED.attribute, left)
             /\ db' = db
        ELSE IF IsNoise(EntryScore[e].score)
        THEN \* filter noise: continue
             /\ remaining' = left
             /\ score' = ScoreAfter(left, EntryScore[e].score)
             /\ pc' = AfterEntry(left)
             /\ UNCHANGED <<db, opp, lastError, exitStatus>>
        ELSE SaveToDb(Opportunity(e), left)
  /\ UNCHANGED <<csv, now, cycle, feedIdx, dispatched, scanned>>
  /\ UNCHANGED scoreVars

\* notify(opp): the message goes to each configured sink; send_telegram and
\* send_discord swallow every failure, so notify always returns
Notify ==
  /\ pc = "notify"
  /\ dispatched' = dispatched \cup {[link |-> opp.link, score |-> opp.score]}
  /\ opp' = NoOpp
  /\ score' = ScoreAfter(remaining, score)
  /\ pc' = AfterEntry(remaining)
  /\ UNCHANGED <<db, csv, now, cycle, feedIdx, remaining, scanned, lastError,
                 exitStatus>>
  /\ UNCHANGED scoreVars

\* time.sleep(1) after process_feed returned, and the next turn of the loop
Sleep ==
  /\ pc = "sleep"
  /\ now' = now + 1
  /\ IF feedIdx < Len(ScannedFeeds)
     THEN feedIdx' = feedIdx + 1 /\ pc' = "process_feed"
     ELSE feedIdx' = feedIdx /\ pc' = "export"
  /\ UNCHANGED <<db, csv, cycle, remaining, score, opp, dispatched, scanned,
                 lastError, exitStatus>>
  /\ UNCHANGED scoreVars

\* export_to_csv and the end of run_once; an error of export_to_csv is not caught
ExportToCsv ==
  /\ pc = "export"
  /\ pc' = "idle"
  /\ \/ csv' \in ExportOrders(db) /\ exitStatus' = "ok"
     \/ csv' = csv /\ exitStatus' = "export_to_csv"
  /\ UNCHANGED <<db, now, cycle, feedIdx, remaining, score, opp, dispatched,
                 scanned, lastError>>
  /\ UNCHANGED scoreVars

Next ==
  \/ RunOnce
  \/ FetchFeed
  \/ \E e \in FeedEntries : ProcessEntry(e)
  \/ Notify
  \/ Sleep
  \/ ExportToCsv

Spec == Init /\ [][Next]_vars

-----------------------------------------------------------------------------
(* The scorer on its own: inputs drawn at the start, one call *)

InitScore ==
  /\ db = EmptyTable
  /\ csv = <<>>
  /\ now = 0
  /\ pc = "idle"
  /\ cycle = 0
  /\ feedIdx = 0
  /\ remaining = 0
  /\ score = NoScore
  /\ opp = NoOpp
  /\ dispatched = {}
  /\ scanned = <<>>
  /\ lastError = NoError
  /\ exitStatus = "none"
  /\ title \in Titles
  /\ summary \in Summaries
  /\ result = NoResult

CalculateScore ==
  /\ result = NoResult
  /\ result' = calculate_score(title, summary)
  /\ UNCHANGED <<title, summary>>
  /\ UNCHANGED machineVars

NextScore == CalculateScore

SpecScore == InitScore /\ [][NextScore]_vars

-----------------------------------------------------------------------------
(* Properties of the record store and the scan cycle (specification Spec) *)

NotifiedLinks == {d.link : d \in dispatched}

\* C1: each id is notified at most once: save_to_db gives the should-notify
\* signal (process_feed stands before notify(opp)) only for a link no
\* notification has been dispatched for yet.
C1_NotifiedAtMostOnce ==
  pc = "notify" => opp.link \notin NotifiedLinks

\* C2: save_to_db is insert-if-absent: the table holds one row per distinct
\* link, and no step changes or removes a row that is stored (title, source,
\* published, score, deadline_hint, notified and added_at keep their
\* first-seen values).
C2_OneRowPerLink ==
  /\ \A id \in DOMAIN db : id = Sha256(db[id].link) /\ db[id].id = id
  /\ \A a, b \in DOMAIN db : db[a].link = db[b].link => a = b

C2_InsertIfAbsent ==
  /\ []C2_OneRowPerLink
  /\ [][\A id \in DOMAIN db : id \in DOMAIN db' /\ db'[id] = db[id]]_vars

\* C2 witness: save_to_db has just returned for a dict whose link was stored
\* before with another title and another score; the row shows the old ones.
C2_Witness ==
  /\ pc = "notify"
  /\ Sha256(opp.link) \in DOMAIN db
  /\ db[Sha256(opp.link)].title # Take(opp.title, TITLE_LIMIT)
  /\ db[Sha256(opp.link)].score # opp.score

\* C3: once notify(opp) has been called for an entry, the stored row of that
\* entry's id has notified = 1.
C3_NotifiedFlagSet ==
  \A d \in dispatched :
    Sha256(d.link) \in DOMAIN db => db[Sha256(d.link)].notified = 1

\* C4: an entry scored below 15 reaches neither the store nor the notifier:
\* every stored row, every dict handed to notify and every dispatched
\* notification has score >= 15.
C4_NoiseNeverStoredOrNotified ==
  /\ \A id \in DOMAIN db : db[id].score >= 15 * MILLI
  /\ \A d \in dispatched : d.score >= 15 * MILLI
  /\ pc = "notify" => opp.score >= 15 * MILLI

\* C4 witness: the loop has just scored an entry below 15 and goes on to the
\* next entry with nothing stored and nothing dispatched.
C4_Witness ==
  /\ pc = "entry"
  /\ score # NoScore
  /\ score < 15 * MILLI
  /\ DOMAIN db = {}
  /\ dispatched = {}

\* C5: an exception raised while a feed is processed does not leave
\* process_feed: no run ends by one, the feeds are processed in the order of
\* FEEDS, and export_to_csv is reached only after every feed was processed.
C5_FeedFailuresIsolated ==
  /\ exitStatus # "process_feed"
  /\ Len(scanned) <= Len(ScannedFeeds)
  /\ scanned = SubSeq(FEEDS, 1, Len(scanned))
  /\ pc = "export" => scanned = ScannedFeeds
  /\ exitStatus \in {"ok", "export_to_csv"} => scanned = ScannedFeeds
  /\ pc \in {"process_feed", "entry", "notify", "sleep"} => Len(scanned) >= feedIdx - 1

\* C5 witness: feedparser.parse raised for the first feed, the second feed
\* still stored a row, and the run ended with export_to_csv done.
C5_Witness ==
  /\ exitStatus = "ok"
  /\ cycle = 1
  /\ lastError.kind = RAISED.parse
  /\ scanned = ScannedFeeds
  /\ \E id \in DOMAIN db : db[id].source = FEEDS[2]

\* C9: an entry without a link is skipped and the rest of the slice
\* d.entries[:15] of the same feed is still processed: the AttributeError of
\* entry.link leaves no entry of the slice behind.
C9_LinklessEntrySkipped ==
  lastError.kind = RAISED.attribute => lastError.abandoned = 0

\* C10: notify(opp) is called only after save_to_db(opp) has committed:
\* every link notified or about to be is stored, and the step in which
\* save_to_db raises dispatches nothing and does not go on to notify.
C10_StoredWhenNotified ==
  /\ pc = "notify" => Sha256(opp.link) \in DOMAIN db
  /\ \A d \in dispatched : Sha256(d.link) \in DOMAIN db

C10_PersistBeforeNotify ==
  /\ []C10_StoredWhenNotified
  /\ [][(lastError' # lastError /\ lastError'.kind = RAISED.store)
          => (pc' # "notify" /\ dispatched' = dispatched)]_vars

\* C10 witness: save_to_db raised after its commit: the row is stored and no
\* notification was dispatched.
C10_Witness ==
  /\ pc = "sleep"
  /\ lastError.kind = RAISED.store
  /\ DOMAIN db # {}
  /\ dispatched = {}

-----------------------------------------------------------------------------
(* Properties of calculate_score (specification SpecScore) *)

\* the text calculate_score looks at
ScoredText == Lower(title \o <<" ">> \o summary)

\* how many keywords of kws occur in text
Present(kws, text) == Cardinality({k \in Range(kws) : Contains(k, text)})

NoKeywordPresent(text) ==
  Present(HIGH_VALUE_KEYWORDS, text) + Present(URGENT_KEYWORDS, text)
    + Present(hot_projects, text) = 0

\* in text some trigger word is followed, after at most 30 characters other
\* than a newline, by a month abbreviation or a D[/-]D date
HasDeadlinePhrase(text) ==
  LET D(i) == i <= Len(text) /\ text[i] \in Range(DIGITS)
      S(i) == i <= Len(text) /\ text[i] \in {"/", "-"}
      DateAt(q) ==
        \/ \E m \in Range(MONTHS) : MatchAt(text, q, m)
        \/ D(q) /\ S(q + 1) /\ D(q + 2)
        \/ D(q) /\ D(q + 1) /\ S(q + 2) /\ D(q + 3)
  IN \E p \in 1..Len(text) : \E w \in Range(TRIGGERS) :
       /\ MatchAt(text, p, w)
       /\ \E g \in 0..30 :
            /\ p + Len(w) + g <= Len(text)
            /\ \A i \in (p + Len(w))..(p + Len(w) + g - 1) : text[i] # "\n"
            /\ DateAt(p + Len(w) + g)

\* C6: the score is non-negative and is 10 per high-value keyword present,
\* 25 per urgency keyword present and 20 per hot-project keyword present,
\* each keyword counted once however often and wherever it occurs.
C6_ScoreIsWeightedPresence ==
  result # NoResult =>
    LET text == ScoredText
    IN /\ result.score >= 0
       /\ result.score = 10 * MILLI * Present(HIGH_VALUE_KEYWORDS, text)
                         + 25 * MILLI * Present(URGENT_KEYWORDS, text)
                         + 20 * MILLI * Present(hot_projects, text)

\* C6 witness: "questquest24h ": one high-value keyword twice and one urgency
\* keyword score 35.0
C6_Witness ==
  /\ title = Fragments[2] \o Fragments[2] \o Fragments[3]
  /\ summary = <<>>
  /\ result.score = 35 * MILLI

\* C7 as stated: a text with none of the configured keywords scores 0.0 and
\* has deadline hint "".
C7_NoKeywordNoHint ==
  (result # NoResult /\ NoKeywordPresent(ScoredText)) =>
    (result.score = 0 /\ result.deadline_hint = <<>>)

\* C7 amended: a text with none of the configured keywords scores 0.0; its
\* deadline hint is "" exactly when the text holds no deadline phrase, and
\* otherwise is a part of the text that starts with "end", "deadline" or
\* "close".
C7_NoKeywordScoresZero ==
  result # NoResult =>
    LET text == ScoredText
    IN NoKeywordPresent(text) =>
         /\ result.score = 0
         /\ result.deadline_hint = <<>> <=> ~HasDeadlinePhrase(text)
         /\ result.deadline_hint # <<>> =>
              /\ Contains(result.deadline_hint, text)
              /\ \E w \in Range(TRIGGERS) : MatchAt(result.deadline_hint, 1, w)

\* C7 witness: "Campaign ends Dec 15, hurry" holds no keyword, scores 0.0 and
\* has the hint "ends dec"
C7_Witness ==
  /\ title = CampaignTitle
  /\ summary = <<>>
  /\ NoKeywordPresent(ScoredText)
  /\ result.score = 0
  /\ result.deadline_hint = <<"e","n","d","s"," ","d","e","c">>

\* C8 as stated: the zkSync title with an empty summary scores 55.0 and has a
\* non-empty deadline hint.
C8_ScenarioHasHint ==
  (result # NoResult /\ title = ScenarioTitle /\ summary = <<>>) =>
    (result.score = 55 * MILLI /\ result.deadline_hint # <<>>)

\* C8 amended: the zkSync title with an empty summary scores 55.0 (10 for
\* airdrop, 20 for zksync, 25 for 24h) and has the empty deadline hint: no
\* month or date follows "ends".
C8_ScenarioScore ==
  (result # NoResult /\ title = ScenarioTitle /\ summary = <<>>) =>
    (result.score = 55 * MILLI /\ result.deadline_hint = <<>>)

C8_Witness ==
  /\ title = ScenarioTitle
  /\ summary = <<>>
  /\ result # NoResult
  /\ Present(HIGH_VALUE_KEYWORDS, ScoredText) = 1
  /\ Present(URGENT_KEYWORDS, ScoredText) = 1
  /\ Present(hot_projects, ScoredText) = 1
=============================================================================
